---- MODULE Spec2Model ----
(***************************************************************************)
(* Model of the Upstox tick engine, src/hooks/use-upstox-tick-data.ts:     *)
(* the useUpstoxTickData hook with its EventSource connection, its three   *)
(* kinds of timers (connect timeout, reconnect, freeze watchdog), its      *)
(* frame decoders (es.onmessage and addTestTick) and its four bounded      *)
(* buffers.                                                                *)
(*                                                                         *)
(* Conventions.                                                            *)
(*   - Time is in milliseconds, as in the source.  Timers hold the time    *)
(*     remaining until they fire; time advances in steps of TimeStep.      *)
(*   - An optional value (undefined / null in the source) is a sequence of *)
(*     length 0 or 1: None == <<>>, Some(v) == <<v>>.                      *)
(*   - An instrument key is a sequence of characters, so that              *)
(*     key.split('|') is computed, not assumed.                            *)
(*   - Prices are integers (tenths of a currency unit: 1005 is 100.5).     *)
(***************************************************************************)
EXTENDS Integers, Sequences, FiniteSets, TLC

(* ------------------------------------------------------------------ *)
(* Program constants                                                   *)
(* ------------------------------------------------------------------ *)

FREEZE_TIMEOUT == 30000

CONNECT_TIMEOUT == 15000

BASE_DELAY == 5000

MAX_DELAY == 30000

(* Buffer capacities.  The source values are 1000 / 50 / 20 / 50; the   *)
(* model runs the same code on scaled-down capacities so that a buffer  *)
(* fills up and evicts within the explored behaviours.                  *)
MAX_TICKS == 2

MAX_ALERTS == 2

MAX_RAW_MESSAGES == 2

MAX_DEBUG_INFO == 2

(* ------------------------------------------------------------------ *)
(* Bounds of the exploration (on the environment, never on the code)   *)
(* ------------------------------------------------------------------ *)

(* The transport closes for good only while the attempt counter is at   *)
(* most MaxAttempts.                                                    *)
MaxAttempts == 5

(* At most MaxFrames frames are received or injected.                   *)
MaxFrames == 3

(* The connection opens and delivers frames only while fewer than       *)
(* MaxIncidents freezes were counted.                                   *)
MaxIncidents == 2

(* The effect is run at most MaxMounts times (mount, and re-mounts      *)
(* after a cleanup).                                                    *)
MaxMounts == 2

(* Smallest delay the code can schedule (BASE_DELAY * 2^(-1)); every    *)
(* timer duration of the program is a multiple of it.                   *)
TimeStep == BASE_DELAY \div 2

(* ------------------------------------------------------------------ *)
(* Optional values and small helpers                                   *)
(* ------------------------------------------------------------------ *)

None == <<>>

Some(v) == <<v>>

IsSome(o) == Len(o) > 0

Get(o) == o[1]

(* a fallback of 0 whatever the default given *)
CoalesceZero(o, d) == IF IsSome(o) THEN Get(o) ELSE 0

(* a ?? b *)
Coalesce(o, d) == IF IsSome(o) THEN Get(o) ELSE d

Min(a, b) == IF a <= b THEN a ELSE b

(* prev.slice(0, n) *)
Slice(s, n) == SubSeq(s, 1, Min(Len(s), n))

(* ------------------------------------------------------------------ *)
(* Instrument keys                                                     *)
(* ------------------------------------------------------------------ *)

KeyNseXyz == <<"N", "S", "E", "|", "X", "Y", "Z">>

KeyPlain == <<"A", "B", "C">>

KeyNoExchange == <<"|", "Q">>

Keys == {KeyNseXyz, KeyPlain, KeyNoExchange}

(* key.split('|'): the segments between separators, in order. *)
RECURSIVE SplitFrom(_, _, _)
SplitFrom(key, i, cur) ==
    IF i > Len(key) THEN <<cur>>
    ELSE IF key[i] = "|" THEN <<cur>> \o SplitFrom(key, i + 1, <<>>)
    ELSE SplitFrom(key, i + 1, Append(cur, key[i]))

Split(key) == SplitFrom(key, 1, <<>>)

(* ------------------------------------------------------------------ *)
(* Frames                                                              *)
(* ------------------------------------------------------------------ *)

(* One entry of payload.feeds: the key and the fields the decoders read *)
(* from the item.  ltpc says whether item.ff.marketFF.ltpc exists; ohlc *)
(* is the value at item.ff.marketFF.marketOHLC.ohlc: absent, an array   *)
(* (last is the volume of its last element, None for an empty array or  *)
(* a last element without volume) or some other object.                 *)
Entry(key, ltp, ltt, ltq, cp, ohlc, volume) ==
    [key |-> key, ltpc |-> TRUE, ltp |-> ltp, ltt |-> ltt, ltq |-> ltq,
     cp |-> cp, ohlc |-> ohlc, volume |-> volume]

NoOhlc == [shape |-> "absent", last |-> None]

OhlcArray(last) == [shape |-> "array", last |-> last]

OhlcObject == [shape |-> "object", last |-> None]

(* An entry carrying only ltp and ltt, as in the frames of the dashboard's *)
(* test panel.                                                             *)
Plain(key, ltp, ltt) == Entry(key, ltp, ltt, None, None, NoOhlc, None)

(* An entry whose item has no ff.marketFF.ltpc at all. *)
NoLtpc(key) == [Plain(key, None, None) EXCEPT !.ltpc = FALSE]

(* The text of a frame, by what JSON.parse makes of it: a syntax error, *)
(* or a payload with its type and its feeds (None: no feeds member).    *)
Malformed == [syntax |-> "bad", type |-> "", feeds |-> None]

Payload(type, feeds) == [syntax |-> "ok", type |-> type, feeds |-> feeds]

LiveFeed(entries) == Payload("live_feed", Some(entries))

(* ------------------------------------------------------------------ *)
(* Tick construction                                                   *)
(* ------------------------------------------------------------------ *)

(* an entry skipped only when it has no price at all (ltp == null) *)
SkippedIfAbsent(e) == ~e.ltpc \/ ~IsSome(e.ltp)

(* item?.ff?.marketFF?.ltpc ; !ltpc?.ltp : the entry is skipped. *)
Skipped(e) == ~e.ltpc \/ ~IsSome(e.ltp) \/ Get(e.ltp) = 0

(* const delay = prev ? ts - prev : 0 *)
DelayOf(prev, ts) == IF IsSome(prev) /\ Get(prev) # 0 THEN ts - Get(prev) ELSE 0

(* ...ohlc?.at(-1)?.volume throws when ohlc is an object without at(). *)
VolumeThrows(e) == e.ohlc.shape = "object"

(* ...ohlc?.at(-1)?.volume ?? Number(item.volume ?? 0) *)
VolumeOf(e) ==
    IF e.ohlc.shape = "array" /\ IsSome(e.ohlc.last) THEN Get(e.ohlc.last)
    ELSE Coalesce(e.volume, 0)

UNK == <<"U", "N", "K">>

TEST == <<"T", "E", "S", "T">>

(* const [exchange, symbol] = key.split('|') ; symbol || key *)
LiveSymbol(key) ==
    LET parts == Split(key)
    IN  IF Len(parts) >= 2 /\ parts[2] # <<>> THEN parts[2] ELSE key

(* exchange || "UNK" *)
LiveExchange(key) ==
    LET parts == Split(key)
    IN  IF parts[1] # <<>> THEN parts[1] ELSE UNK

(* The object pushed by es.onmessage.  seq is a history field (the rank *)
(* of the tick in decoding order), not a field of the source; the id of *)
(* the source (a random string) is left out.                            *)
LiveTick(e, ts, now, delay, seq) ==
    [instrument_token |-> e.key,
     last_price       |-> Get(e.ltp),
     last_quantity    |-> Coalesce(e.ltq, 0),
     average_price    |-> Coalesce(e.cp, Get(e.ltp)),
     volume           |-> VolumeOf(e),
     timestamp        |-> ts,
     receivedAt       |-> now,
     delay            |-> delay,
     tradingsymbol    |-> LiveSymbol(e.key),
     exchange         |-> LiveExchange(e.key),
     seq              |-> seq]

(* a test tick stamped with the time of the call, not of the entry *)
TestTickStamped(e, ts, now, delay, seq) ==
    [LiveTick(e, now, now, delay, seq) EXCEPT
        !.tradingsymbol = <<"T", "E", "S", "T", "_">> \o e.key,
        !.exchange = <<"T", "E", "S", "T">>]

(* The object pushed by addTestTick. *)
TestTick(e, ts, now, delay, seq) ==
    [instrument_token |-> e.key,
     last_price       |-> Get(e.ltp),
     last_quantity    |-> Coalesce(e.ltq, 0),
     average_price    |-> Coalesce(e.cp, Get(e.ltp)),
     volume           |-> VolumeOf(e),
     timestamp        |-> ts,
     receivedAt       |-> now,
     delay            |-> delay,
     tradingsymbol    |-> TEST \o <<"_">> \o e.key,
     exchange         |-> TEST,
     seq              |-> seq]

(* The for-loop of es.onmessage over Object.entries(payload.feeds),     *)
(* from entry i on: the ticks collected, the delay tracker as the loop  *)
(* leaves it, and whether the loop threw.                               *)
RECURSIVE LiveLoop(_, _, _, _, _, _)
LiveLoop(feeds, i, now, tracker, acc, seq) ==
    IF i > Len(feeds) THEN [ticks |-> acc, tracker |-> tracker, threw |-> FALSE]
    ELSE LET e == feeds[i]
         IN  IF Skipped(e) THEN LiveLoop(feeds, i + 1, now, tracker, acc, seq)
             ELSE LET ts      == Coalesce(e.ltt, now)
                      delay   == DelayOf(tracker[e.key], ts)
                      updated == [tracker EXCEPT ![e.key] = Some(ts)]
                  IN  IF VolumeThrows(e)
                      THEN [ticks |-> acc, tracker |-> updated, threw |-> TRUE]
                      ELSE LiveLoop(feeds, i + 1, now, updated,
                                    Append(acc, LiveTick(e, ts, now, delay, seq + 1)),
                                    seq + 1)

(* The for-loop of addTestTick. *)
RECURSIVE TestLoop(_, _, _, _, _, _)
TestLoop(feeds, i, now, tracker, acc, seq) ==
    IF i > Len(feeds) THEN [ticks |-> acc, tracker |-> tracker, threw |-> FALSE]
    ELSE LET e == feeds[i]
         IN  IF Skipped(e) THEN TestLoop(feeds, i + 1, now, tracker, acc, seq)
             ELSE LET ts      == Coalesce(e.ltt, now)
                      delay   == DelayOf(tracker[e.key], ts)
                      updated == [tracker EXCEPT ![e.key] = Some(ts)]
                  IN  IF VolumeThrows(e)
                      THEN [ticks |-> acc, tracker |-> updated, threw |-> TRUE]
                      ELSE TestLoop(feeds, i + 1, now, updated,
                                    Append(acc, TestTick(e, ts, now, delay, seq + 1)),
                                    seq + 1)

(* payload?.type === "live_feed" && payload.feeds *)
Recognized(f) == f.syntax = "ok" /\ f.type = "live_feed" /\ IsSome(f.feeds)

(* the batch prepended without .slice(0, MAX_TICKS) *)
PushTicksUnbounded(prev, newTicks) == newTicks \o prev

(* the batch put behind the ticks already there *)
PushTicksBehind(prev, newTicks) == Slice(prev \o newTicks, MAX_TICKS)

(* setTicks((prev) => [...newTicks, ...prev].slice(0, MAX_TICKS)) *)
PushTicks(prev, newTicks) == Slice(newTicks \o prev, MAX_TICKS)

(* a count that follows the length of the tick buffer *)
CountTicksInBuffer(prev, newTicks) == Min(prev + Len(newTicks), MAX_TICKS)

(* setTotalTicks((prev) => prev + newTicks.length) *)
CountTicks(prev, newTicks) == prev + Len(newTicks)

(* [item, ...prev.slice(0, cap - 1)] *)
PushFront(prev, item, cap) == <<item>> \o Slice(prev, cap - 1)

RECURSIVE PushAll(_, _, _)
PushAll(prev, items, cap) ==
    IF items = <<>> THEN prev
    ELSE PushAll(PushFront(prev, Head(items), cap), Tail(items), cap)

(* ------------------------------------------------------------------ *)
(* State                                                               *)
(* ------------------------------------------------------------------ *)

VARIABLES
    (* useState *)
    ticks, alerts, connectionStatus, isFrozen, lastTickTime, totalTicks,
    freezingIncidents, rawMessages, debugInfo,
    (* useRef: esRef is the readyState of esRef.current, or "null" *)
    esRef, freezeTimer, lastTickForInstrument, reconnectTimeoutRef,
    connectionAttempts,
    (* the connectionTimeout of the current attempt, and the timeouts   *)
    (* still pending of attempts whose EventSource was closed by a      *)
    (* later connectToUpstox or by the cleanup                          *)
    connectionTimeout, staleTimeouts,
    (* the freeze and reconnect timers still pending although their ref *)
    (* was given a new timer: pairs of the kind and the time remaining  *)
    strayTimers,
    (* the readyStates of the EventSources that esRef no longer refers  *)
    (* to                                                               *)
    superseded,
    (* whether the effect is active, and how often it ran *)
    mounted, mounts,
    (* history: the number of frames handled; the last operation and    *)
    (* its frame; the number of attempts so far when each of them ended *)
    (* with the transport closing (None once an attempt ended           *)
    (* otherwise); the pushes into each log since it was last empty,    *)
    (* counted up to capacity + 1; whether the EventSource of the       *)
    (* current attempt has opened; the time since scheduleFreeze was    *)
    (* last called (None when the watchdog has fired or was cleared);   *)
    (* the number of ticks pushed into the tick buffer and, per key,    *)
    (* the timestamp of the last one                                    *)
    frames, last, failRun, pushed, opened, quiet, decoded,
    (* the instrument verification panel: the two tick lists it is      *)
    (* given and the result of analyzePriceDiscrepancies (None before   *)
    (* it has run)                                                      *)
    verification

vars == <<ticks, alerts, connectionStatus, isFrozen, lastTickTime, totalTicks,
          freezingIncidents, rawMessages, debugInfo, esRef, freezeTimer,
          lastTickForInstrument, reconnectTimeoutRef, connectionAttempts,
          connectionTimeout, staleTimeouts, strayTimers, superseded, mounted,
          mounts, frames, last, failRun,
          pushed, opened, quiet, decoded, verification>>

progVarsButStale == <<ticks, alerts, connectionStatus, isFrozen, lastTickTime,
                      totalTicks, freezingIncidents, rawMessages, debugInfo, esRef,
                      freezeTimer, lastTickForInstrument, reconnectTimeoutRef,
                      connectionAttempts, connectionTimeout>>

NoFrame == [syntax |-> "none", type |-> "", feeds |-> None]

Did(op) == [op |-> op, frame |-> NoFrame]

DidFrame(op, f) == [op |-> op, frame |-> f]

(* the panel given two empty lists, not rendered *)
NoVerification == [kiteTicks |-> <<>>, upstoxTicks |-> <<>>, discrepancies |-> None]

(* the state of the hook after its first render *)
InitHook ==
    /\ ticks = <<>>
    /\ alerts = <<>>
    /\ connectionStatus = "disconnected"
    /\ isFrozen = FALSE
    /\ lastTickTime = None
    /\ totalTicks = 0
    /\ freezingIncidents = 0
    /\ rawMessages = <<>>
    /\ debugInfo = <<>>
    /\ esRef = "null"
    /\ freezeTimer = None
    /\ lastTickForInstrument = [k \in Keys |-> None]
    /\ reconnectTimeoutRef = None
    /\ connectionAttempts = 0
    /\ connectionTimeout = None
    /\ staleTimeouts = {}
    /\ strayTimers = {}
    /\ superseded = {}
    /\ mounted = FALSE
    /\ mounts = 0
    /\ frames = 0
    /\ last = Did("init")
    /\ failRun = Some(0)
    /\ pushed = [alerts |-> 0, raw |-> 0, debug |-> 0]
    /\ opened = FALSE
    /\ quiet = None
    /\ decoded = [count |-> 0, time |-> [k \in Keys |-> None]]

Init == InitHook /\ verification = NoVerification

(* ------------------------------------------------------------------ *)
(* Helpers of the hook                                                 *)
(* ------------------------------------------------------------------ *)

Alert(type, message, severity) ==
    [type |-> type, message |-> message, severity |-> severity]

(* a parse error reported as a high alert *)
ParseErrorHigh == Alert("data", "parse error", "high")

(* addAlert("data", `Upstox parse error: ${err}`, "medium") *)
ParseError == Alert("data", "parse error", "medium")

(* addDebugInfo, for the messages msgs in order *)
AddDebugInfo(prev, msgs) == PushAll(prev, msgs, MAX_DEBUG_INFO)

(* the setAlerts of addAlert, for the alerts as in order *)
AddAlerts(prev, as) == PushAll(prev, as, MAX_ALERTS)

(* `[upstox] ${e.data.substring(0, 100)}...`: the head of the text of  *)
(* the frame, of which the model keeps the syntax and the type marker. *)
RawText(f) == [syntax |-> f.syntax, type |-> f.type]

(* a raw log that records recognized payloads only *)
AddRawMessageRecognized(prev, f) ==
    IF f.syntax = "ok" /\ f.type = "live_feed" /\ IsSome(f.feeds)
    THEN PushFront(prev, RawText(f), MAX_RAW_MESSAGES)
    ELSE prev

(* setRawMessages of es.onmessage *)
AddRawMessage(prev, f) == PushFront(prev, RawText(f), MAX_RAW_MESSAGES)

(* history: n more pushes into a log of capacity cap *)
Counted(k, n, cap) == Min(k + n, cap + 1)

Logged(nAlerts, nRaw, nDebug) ==
    pushed' = [alerts |-> Counted(pushed.alerts, nAlerts, MAX_ALERTS),
               raw    |-> Counted(pushed.raw, nRaw, MAX_RAW_MESSAGES),
               debug  |-> Counted(pushed.debug, nDebug, MAX_DEBUG_INFO)]

(* the delay without Math.min(..., 30000) *)
ReconnectDelayUncapped(attempts) == (BASE_DELAY * 2 ^ attempts) \div 2

(* Math.min(5000 * Math.pow(2, connectionAttempts.current - 1), 30000) *)
ReconnectDelay(attempts) == Min((BASE_DELAY * 2 ^ attempts) \div 2, MAX_DELAY)

(* clearTimeout(t); t = setTimeout(..., ms) *)
Armed(ms) == Some(ms)

(* a timer left running where the code clears it *)
ClearTimeoutSkipped(t) == t

(* clearTimeout(t): the timer t is no longer pending *)
ClearTimeout(t) == None

(* if (ref.current) clearTimeout(ref.current); ref.current = setTimeout(...): *)
(* the timers of this kind left pending without a ref after the new one   *)
(* took the ref of t                                                      *)
Replaced(kind, t) ==
    LET left == ClearTimeout(t)
    IN  strayTimers \cup (IF IsSome(left) THEN {<<kind, Get(left)>>} ELSE {})

(* a watchdog armed with the connect timeout instead of FREEZE_TIMEOUT *)
ScheduleFreezeShort == Armed(CONNECT_TIMEOUT)

(* a watchdog that is armed only when none is pending *)
ScheduleFreezeIfIdle == IF IsSome(freezeTimer) THEN freezeTimer ELSE Armed(FREEZE_TIMEOUT)

(* a scheduleFreeze that leaves the watchdog as it finds it *)
ScheduleFreezeSkipped == freezeTimer

(* the freezeTimer after scheduleFreeze() *)
ScheduleFreeze == Armed(FREEZE_TIMEOUT)

(* an EventSource left as it is where the code closes it *)
CloseExistingSkipped(es) == es

(* esRef.current.close(): the readyState of the EventSource es after it *)
CloseExisting(es) == "CLOSED"

(* The EventSources without a ref once esRef.current is assigned anew:  *)
(* the one it referred to, closed first, joins them.                    *)
Dropped == IF esRef # "null" THEN superseded \cup {CloseExisting(esRef)}
           ELSE superseded

(* A connectionTimeout whose EventSource is closed without clearing it *)
(* stays pending.                                                      *)
Abandoned == IF IsSome(connectionTimeout)
             THEN staleTimeouts \cup {Get(connectionTimeout)}
             ELSE staleTimeouts

(* connectToUpstox(); before are the debug messages the caller logged  *)
(* first, throws says whether new EventSource(FEED_URL) throws.        *)
ConnectToUpstox(before, throws) ==
    LET closing == esRef # "null"
        dbg     == before \o (IF closing THEN <<"closing existing">> ELSE <<>>)
                          \o <<"attempt">>
    IN  /\ connectionAttempts' = connectionAttempts + 1
        /\ staleTimeouts' = Abandoned
        /\ IF throws
           THEN /\ esRef' = IF closing THEN CloseExisting(esRef) ELSE "null"
                /\ superseded' = superseded
                /\ connectionTimeout' = None
                /\ connectionStatus' = "error"
                /\ alerts' = AddAlerts(alerts, <<Alert("connection", "connection failed", "high")>>)
                /\ debugInfo' = AddDebugInfo(debugInfo, dbg \o <<"failed to create", "alert">>)
                /\ Logged(1, 0, Len(dbg) + 2)
           ELSE /\ esRef' = "CONNECTING"
                /\ superseded' = Dropped
                /\ connectionTimeout' = Armed(CONNECT_TIMEOUT)
                /\ connectionStatus' = "connecting"
                /\ alerts' = alerts
                /\ debugInfo' = AddDebugInfo(debugInfo, dbg \o <<"created">>)
                /\ Logged(0, 0, Len(dbg) + 1)

(* ------------------------------------------------------------------ *)
(* The effect: mount and cleanup                                       *)
(* ------------------------------------------------------------------ *)

(* useEffect body: addDebugInfo(...); connectToUpstox() *)
MountWith(throws) ==
    /\ ~mounted
    /\ mounts < MaxMounts
    /\ ConnectToUpstox(<<"initializing">>, throws)
    /\ failRun' = IF mounts = 0 /\ ~throws THEN failRun ELSE None
    /\ mounted' = TRUE
    /\ mounts' = mounts + 1
    /\ last' = Did("mount")
    /\ opened' = FALSE
    /\ UNCHANGED <<ticks, isFrozen, lastTickTime, totalTicks, freezingIncidents,
                   rawMessages, freezeTimer, lastTickForInstrument,
                   reconnectTimeoutRef, strayTimers, frames, quiet, decoded>>
    /\ UNCHANGED verification

(* the effect, new EventSource(FEED_URL) succeeding *)
Mount == MountWith(FALSE)

(* the effect, new EventSource(FEED_URL) throwing *)
MountThrows == MountWith(TRUE)

(* a cleanup that also clears the delay tracker *)
TeardownClears(tracker) == [k \in Keys |-> None]

(* the lastTickForInstrument map after the cleanup, which has no line   *)
(* about it                                                             *)
TeardownLeaves(tracker) == tracker

(* the function returned by the effect; op names the call in the history *)
Teardown(op) ==
    /\ lastTickForInstrument' = TeardownLeaves(lastTickForInstrument)
    /\ debugInfo' = AddDebugInfo(debugInfo, <<"cleaning up">>)
    /\ Logged(0, 0, 1)
    /\ esRef' = "null"
    /\ superseded' = Dropped
    /\ staleTimeouts' = Abandoned
    /\ connectionTimeout' = None
    /\ freezeTimer' = ClearTimeout(freezeTimer)
    /\ reconnectTimeoutRef' = ClearTimeout(reconnectTimeoutRef)
    /\ mounted' = FALSE
    /\ last' = Did(op)
    /\ failRun' = None
    /\ quiet' = None
    /\ UNCHANGED <<ticks, alerts, connectionStatus, isFrozen, lastTickTime,
                   totalTicks, freezingIncidents, rawMessages,
                   connectionAttempts, strayTimers, mounts,
                   frames, opened, decoded>>
    /\ UNCHANGED verification

(* the cleanup of the effect that is active *)
Cleanup == mounted /\ Teardown("cleanup")

(* the same function called once more after the effect was cleaned up *)
CleanupAgain == ~mounted /\ mounts > 0 /\ Teardown("cleanup again")

(* ------------------------------------------------------------------ *)
(* EventSource events                                                  *)
(* ------------------------------------------------------------------ *)

(* es.onopen *)
TransportOpen ==
    /\ esRef = "CONNECTING"
    /\ freezingIncidents < MaxIncidents
    /\ esRef' = "OPEN"
    /\ connectionTimeout' = ClearTimeout(connectionTimeout)
    /\ connectionStatus' = "connected"
    /\ connectionAttempts' = 0
    /\ alerts' = AddAlerts(alerts, <<Alert("connection", "connected", "low")>>)
    /\ debugInfo' = AddDebugInfo(debugInfo, <<"opened", "alert">>)
    /\ Logged(1, 0, 2)
    /\ freezeTimer' = ScheduleFreeze
    /\ strayTimers' = Replaced("freeze", freezeTimer)
    /\ last' = Did("open")
    /\ failRun' = None
    /\ opened' = TRUE
    /\ quiet' = Some(0)
    /\ UNCHANGED <<ticks, isFrozen, lastTickTime, totalTicks, freezingIncidents,
                   rawMessages, lastTickForInstrument, reconnectTimeoutRef,
                   staleTimeouts, mounted, mounts, frames, decoded>>
    /\ UNCHANGED <<superseded, verification>>

(* es.onerror while the browser re-establishes the connection by itself: *)
(* readyState is CONNECTING, the handler only clears the timeout.        *)
TransportRetry ==
    /\ esRef \in {"CONNECTING", "OPEN"}
    /\ esRef' = "CONNECTING"
    /\ connectionTimeout' = ClearTimeout(connectionTimeout)
    /\ debugInfo' = AddDebugInfo(debugInfo, <<"sse error">>)
    /\ Logged(0, 0, 1)
    /\ last' = Did("retry")
    /\ UNCHANGED <<ticks, alerts, connectionStatus, isFrozen, lastTickTime,
                   totalTicks, freezingIncidents, rawMessages, freezeTimer,
                   lastTickForInstrument, reconnectTimeoutRef, connectionAttempts,
                   staleTimeouts, strayTimers, mounted, mounts, failRun, frames,
                   opened, quiet, decoded>>
    /\ UNCHANGED <<superseded, verification>>

(* es.onerror when the browser fails the connection: readyState is CLOSED. *)
TransportClosed ==
    /\ esRef = "CONNECTING"
    /\ connectionAttempts <= MaxAttempts
    /\ esRef' = "CLOSED"
    /\ connectionTimeout' = ClearTimeout(connectionTimeout)
    /\ connectionStatus' = "error"
    /\ alerts' = AddAlerts(alerts, <<Alert("connection", "connection lost", "high")>>)
    /\ debugInfo' = AddDebugInfo(debugInfo,
                        <<"sse error", "closed", "alert", "reconnecting in">>)
    /\ Logged(1, 0, 4)
    /\ reconnectTimeoutRef' = Armed(ReconnectDelay(connectionAttempts))
    /\ strayTimers' = Replaced("reconnect", reconnectTimeoutRef)
    /\ last' = Did("closed")
    /\ failRun' = IF IsSome(failRun) THEN Some(Get(failRun) + 1) ELSE None
    /\ UNCHANGED <<ticks, isFrozen, lastTickTime, totalTicks, freezingIncidents,
                   rawMessages, freezeTimer, lastTickForInstrument,
                   connectionAttempts, staleTimeouts, mounted, mounts, frames, opened, quiet, decoded>>
    /\ UNCHANGED <<superseded, verification>>

(* ------------------------------------------------------------------ *)
(* Timers                                                              *)
(* ------------------------------------------------------------------ *)

Due(t) == t = Some(0)

(* the callback of connectionTimeout *)
ConnectTimeoutFire ==
    /\ Due(connectionTimeout)
    /\ connectionTimeout' = None
    /\ IF esRef = "CONNECTING"
       THEN /\ esRef' = "CLOSED"
            /\ connectionStatus' = "error"
            /\ alerts' = AddAlerts(alerts, <<Alert("connection", "connection timeout", "high")>>)
            /\ debugInfo' = AddDebugInfo(debugInfo, <<"timeout", "alert">>)
            /\ Logged(1, 0, 2)
       ELSE UNCHANGED <<esRef, connectionStatus, alerts, debugInfo, pushed>>
    /\ last' = Did("connect timeout")
    /\ failRun' = None
    /\ UNCHANGED <<ticks, isFrozen, lastTickTime, totalTicks, freezingIncidents,
                   rawMessages, freezeTimer, lastTickForInstrument,
                   reconnectTimeoutRef, connectionAttempts, staleTimeouts,
                   strayTimers, mounted, mounts, frames, opened, quiet, decoded>>
    /\ UNCHANGED <<superseded, verification>>

(* the callback of a connectionTimeout whose EventSource was closed:   *)
(* es.readyState is CLOSED, nothing happens                            *)
StaleTimeoutFire ==
    /\ 0 \in staleTimeouts
    /\ staleTimeouts' = staleTimeouts \ {0}
    /\ last' = Did("stale timeout")
    /\ UNCHANGED <<progVarsButStale, strayTimers, mounted, mounts, failRun, pushed,
                   frames, opened, quiet, decoded>>
    /\ UNCHANGED <<superseded, verification>>

(* the callback of freezeTimer *)
FreezeFire ==
    /\ Due(freezeTimer)
    /\ freezeTimer' = None
    /\ isFrozen' = TRUE
    /\ freezingIncidents' = freezingIncidents + 1
    /\ alerts' = AddAlerts(alerts, <<Alert("freeze", "no data", "high")>>)
    /\ debugInfo' = AddDebugInfo(debugInfo, <<"alert">>)
    /\ Logged(1, 0, 1)
    /\ last' = Did("freeze")
    /\ quiet' = None
    /\ UNCHANGED <<ticks, connectionStatus, lastTickTime, totalTicks, rawMessages,
                   esRef, lastTickForInstrument, reconnectTimeoutRef,
                   connectionAttempts, connectionTimeout, staleTimeouts,
                   strayTimers, mounted, mounts, failRun, frames, opened, decoded>>
    /\ UNCHANGED <<superseded, verification>>

(* the callback of reconnectTimeoutRef: connectToUpstox *)
ReconnectWith(throws) ==
    /\ Due(reconnectTimeoutRef)
    /\ reconnectTimeoutRef' = None
    /\ ConnectToUpstox(<<>>, throws)
    /\ failRun' = IF throws THEN None ELSE failRun
    /\ last' = Did("reconnect")
    /\ opened' = FALSE
    /\ UNCHANGED <<ticks, isFrozen, lastTickTime, totalTicks, freezingIncidents,
                   rawMessages, freezeTimer, lastTickForInstrument, strayTimers,
                   mounted, mounts, frames, quiet, decoded>>
    /\ UNCHANGED verification

(* the callback, new EventSource(FEED_URL) succeeding *)
ReconnectFire == ReconnectWith(FALSE)

(* the callback, new EventSource(FEED_URL) throwing *)
ReconnectThrows == ReconnectWith(TRUE)

(* a pending timer t after d milliseconds *)
ElapseBy(t, d) == IF IsSome(t) THEN Some(Get(t) - d) ELSE None

Pending == (IF IsSome(freezeTimer) THEN {Get(freezeTimer)} ELSE {})
           \cup (IF IsSome(reconnectTimeoutRef) THEN {Get(reconnectTimeoutRef)} ELSE {})
           \cup (IF IsSome(connectionTimeout) THEN {Get(connectionTimeout)} ELSE {})
           \cup staleTimeouts
           \cup {t[2] : t \in strayTimers}

(* d milliseconds pass, no timer being due earlier. *)
AdvanceBy(d) ==
    /\ Pending # {}
    /\ \A t \in Pending : t >= d
    /\ freezeTimer' = ElapseBy(freezeTimer, d)
    /\ reconnectTimeoutRef' = ElapseBy(reconnectTimeoutRef, d)
    /\ connectionTimeout' = ElapseBy(connectionTimeout, d)
    /\ staleTimeouts' = {t - d : t \in staleTimeouts}
    /\ strayTimers' = {<<t[1], t[2] - d>> : t \in strayTimers}
    /\ last' = Did("advance")
    /\ quiet' = IF IsSome(quiet) THEN Some(Get(quiet) + d) ELSE None
    /\ UNCHANGED <<ticks, alerts, connectionStatus, isFrozen, lastTickTime,
                   totalTicks, freezingIncidents, rawMessages, debugInfo, esRef,
                   lastTickForInstrument, connectionAttempts, mounted, mounts,
                   failRun, pushed, frames, opened, decoded>>
    /\ UNCHANGED <<superseded, verification>>

(* TimeStep milliseconds pass; a timer that is due fires first. *)
Advance == AdvanceBy(TimeStep)

(* the time until the next timer is due *)
NextDue == CHOOSE t \in Pending : \A u \in Pending : t <= u

(* Nothing happens until the next timer is due. *)
Sleep == Pending # {} /\ NextDue > 0 /\ AdvanceBy(NextDue)

(* ------------------------------------------------------------------ *)
(* Frames: es.onmessage and addTestTick                                *)
(* ------------------------------------------------------------------ *)

(* What the loop of es.onmessage makes of the frame f at time now. *)
LiveResult(f, now) ==
    LiveLoop(Get(f.feeds), 1, now, lastTickForInstrument, <<>>, decoded.count)

(* What the loop of addTestTick makes of it. *)
TestResult(f, now) ==
    TestLoop(Get(f.feeds), 1, now, lastTickForInstrument, <<>>, decoded.count)

(* history: the ticks of the result r that reach the tick buffer *)
Kept(f, r) == IF Recognized(f) /\ ~r.threw THEN r.ticks ELSE <<>>

Newest(new, k) ==
    LET is == {i \in DOMAIN new : new[i].instrument_token = k}
    IN  new[CHOOSE i \in is : \A j \in is : j <= i]

Noted(new) ==
    [count |-> decoded.count + Len(new),
     time  |-> [k \in Keys |->
                  IF \E i \in DOMAIN new : new[i].instrument_token = k
                  THEN Some(Newest(new, k).timestamp)
                  ELSE decoded.time[k]]]

(* es.onmessage, for the frame f received at local time now *)
Message(f, now) ==
    /\ esRef = "OPEN"
    /\ freezingIncidents < MaxIncidents
    /\ frames < MaxFrames
    /\ frames' = frames + 1
    /\ freezeTimer' = ScheduleFreeze
    /\ strayTimers' = Replaced("freeze", freezeTimer)
    /\ rawMessages' = AddRawMessage(rawMessages, f)
    /\ last' = DidFrame("message", f)
    /\ IF f.syntax = "bad"
       THEN (* JSON.parse throws *)
            /\ alerts' = AddAlerts(alerts, <<ParseError>>)
            /\ debugInfo' = AddDebugInfo(debugInfo, <<"alert", "parse error">>)
            /\ Logged(1, 1, 2)
            /\ UNCHANGED <<ticks, totalTicks, lastTickTime, isFrozen,
                           lastTickForInstrument>>
       ELSE IF ~Recognized(f)
       THEN /\ debugInfo' = AddDebugInfo(debugInfo, <<"received type", "non-live_feed">>)
            /\ Logged(0, 1, 2)
            /\ UNCHANGED <<alerts, ticks, totalTicks, lastTickTime, isFrozen,
                           lastTickForInstrument>>
       ELSE LET r == LiveResult(f, now)
            IN  /\ lastTickForInstrument' = r.tracker
                /\ IF r.threw
                   THEN (* the loop throws: the catch of the handler *)
                        /\ alerts' = AddAlerts(alerts, <<ParseError>>)
                        /\ debugInfo' = AddDebugInfo(debugInfo,
                                         <<"received type", "alert", "parse error">>)
                        /\ Logged(1, 1, 3)
                        /\ UNCHANGED <<ticks, totalTicks, lastTickTime, isFrozen>>
                   ELSE IF Len(r.ticks) > 0
                   THEN /\ ticks' = PushTicks(ticks, r.ticks)
                        /\ totalTicks' = CountTicks(totalTicks, r.ticks)
                        /\ lastTickTime' = Some(now)
                        /\ isFrozen' = FALSE
                        /\ debugInfo' = AddDebugInfo(debugInfo,
                                         <<"received type", "processed">>)
                        /\ Logged(0, 1, 2)
                        /\ alerts' = alerts
                   ELSE /\ debugInfo' = AddDebugInfo(debugInfo, <<"received type">>)
                        /\ Logged(0, 1, 1)
                        /\ UNCHANGED <<alerts, ticks, totalTicks, lastTickTime,
                                       isFrozen>>
    /\ quiet' = Some(0)
    /\ decoded' = Noted(Kept(f, LiveResult(f, now)))
    /\ UNCHANGED <<connectionStatus, freezingIncidents, esRef, reconnectTimeoutRef,
                   connectionAttempts, connectionTimeout, staleTimeouts, mounted,
                   mounts, failRun, opened>>
    /\ UNCHANGED <<superseded, verification>>

(* addTestTick calling scheduleFreeze as es.onmessage does *)
TestTickRearms(t) == ScheduleFreeze

(* the freezeTimer after addTestTick, which has no scheduleFreeze *)
TestTickLeaves(t) == t

(* addTestTick(testData), called at local time now *)
AddTestTick(f, now) ==
    /\ frames < MaxFrames
    /\ freezeTimer' = TestTickLeaves(freezeTimer)
    /\ frames' = frames + 1
    /\ last' = DidFrame("inject", f)
    /\ IF f.syntax = "bad"
       THEN (* JSON.parse throws: the catch only logs *)
            /\ debugInfo' = AddDebugInfo(debugInfo, <<"adding test tick", "test error">>)
            /\ Logged(0, 0, 2)
            /\ UNCHANGED <<ticks, totalTicks, lastTickTime, lastTickForInstrument>>
       ELSE IF ~Recognized(f)
       THEN /\ debugInfo' = AddDebugInfo(debugInfo, <<"adding test tick">>)
            /\ Logged(0, 0, 1)
            /\ UNCHANGED <<ticks, totalTicks, lastTickTime, lastTickForInstrument>>
       ELSE LET r == TestResult(f, now)
            IN  /\ lastTickForInstrument' = r.tracker
                /\ IF r.threw
                   THEN /\ debugInfo' = AddDebugInfo(debugInfo,
                                         <<"adding test tick", "test error">>)
                        /\ Logged(0, 0, 2)
                        /\ UNCHANGED <<ticks, totalTicks, lastTickTime>>
                   ELSE IF Len(r.ticks) > 0
                   THEN /\ ticks' = PushTicks(ticks, r.ticks)
                        /\ totalTicks' = CountTicks(totalTicks, r.ticks)
                        /\ lastTickTime' = Some(now)
                        /\ debugInfo' = AddDebugInfo(debugInfo,
                                         <<"adding test tick", "test added">>)
                        /\ Logged(0, 0, 2)
                   ELSE /\ debugInfo' = AddDebugInfo(debugInfo, <<"adding test tick">>)
                        /\ Logged(0, 0, 1)
                        /\ UNCHANGED <<ticks, totalTicks, lastTickTime>>
    /\ decoded' = Noted(Kept(f, TestResult(f, now)))
    /\ UNCHANGED <<alerts, connectionStatus, isFrozen, freezingIncidents, rawMessages,
                   esRef, reconnectTimeoutRef, connectionAttempts,
                   connectionTimeout, staleTimeouts, strayTimers, mounted, mounts,
                   failRun, opened, quiet>>
    /\ UNCHANGED <<superseded, verification>>

(* a clear that keeps the newest alert *)
ClearedButNewest(prev) == Slice(prev, 1)

(* the argument of setAlerts([]) *)
Cleared(prev) == <<>>

(* clearAlerts: () => setAlerts([]) *)
ClearAlerts ==
    /\ alerts' = Cleared(alerts)
    /\ pushed' = [pushed EXCEPT !.alerts = 0]
    /\ last' = Did("clear")
    /\ UNCHANGED <<ticks, connectionStatus, isFrozen, lastTickTime, totalTicks,
                   freezingIncidents, rawMessages, debugInfo, esRef, freezeTimer,
                   lastTickForInstrument, reconnectTimeoutRef, connectionAttempts,
                   connectionTimeout, staleTimeouts, strayTimers, mounted, mounts,
                   failRun, frames, opened, quiet, decoded>>
    /\ UNCHANGED <<superseded, verification>>

(* a / b as JavaScript's division gives it, kept exact as the pair *)
Ratio(a, b) == [num |-> a, den |-> b]

(* ts.reduce((s, t) => s + t.delay, 0), from element i on *)
RECURSIVE Reduce(_, _, _)
Reduce(ts, i, sum) ==
    IF i > Len(ts) THEN sum ELSE Reduce(ts, i + 1, sum + ts[i].delay)

(* the sum divided by the number of ticks ever counted *)
AverageDelayOverTotal(ts) ==
    IF Len(ts) = 0 THEN Ratio(0, 1) ELSE Ratio(Reduce(ts, 1, 0), totalTicks)

(* ticks.length === 0 ? 0 : ticks.reduce(...) / ticks.length *)
AverageDelay(ts) ==
    IF Len(ts) = 0 THEN Ratio(0, 1) ELSE Ratio(Reduce(ts, 1, 0), Len(ts))

(* const averageDelay = ..., computed at each render *)
averageDelay == AverageDelay(ticks)

(* comparison-dashboard: upstoxTicks.filter(tick =>                    *)
(* tick.instrument_token === pair.upstoxSymbol)                        *)
UpstoxMatches(upstoxTicks, upstoxSymbol) ==
    SelectSeq(upstoxTicks, LAMBDA tick : tick.instrument_token = upstoxSymbol)

(* upstoxMatches.length > 0 ? upstoxMatches[0] : null *)
UpstoxData(upstoxTicks, upstoxSymbol) ==
    LET upstoxMatches == UpstoxMatches(upstoxTicks, upstoxSymbol)
    IN  IF Len(upstoxMatches) > 0 THEN Some(upstoxMatches[1]) ELSE None

(* ------------------------------------------------------------------ *)
(* Inputs                                                              *)
(* ------------------------------------------------------------------ *)

(* Date.now() at the frames *)
Nows == {2000}

Price == 1005

FrameOther == Payload("heartbeat", None)

(* one priced entry for the same key, with each timestamp *)
FrameAt(t) == LiveFeed(<<Plain(KeyNseXyz, Some(Price), t)>>)

(* three priced entries: more ticks than the tick buffer holds *)
FrameBatch ==
    LiveFeed(<<Plain(KeyPlain, Some(Price), Some(1000)),
               Plain(KeyNoExchange, Some(Price), Some(1000)),
               Plain(KeyNseXyz, Some(Price), Some(1500))>>)

(* an entry without ltpc and an entry with price 0 before a priced one *)
FrameSkips ==
    LiveFeed(<<NoLtpc(KeyPlain),
               Plain(KeyNoExchange, Some(0), Some(1000)),
               Plain(KeyNseXyz, Some(Price), Some(1500))>>)

(* a priced entry before one whose ohlc is no array *)
FrameThrows ==
    LiveFeed(<<Plain(KeyPlain, Some(Price), Some(1500)),
               Entry(KeyNseXyz, Some(Price), Some(1000), None, None, OhlcObject, None)>>)

(* a live feed without a feeds member *)
FrameNoFeeds == Payload("live_feed", None)

(* an entry without ltpc and an entry with price 0, nothing else *)
FrameAllSkipped ==
    LiveFeed(<<NoLtpc(KeyPlain), Plain(KeyNoExchange, Some(0), Some(1000))>>)

(* an entry with every field the decoders read *)
FrameFull ==
    LiveFeed(<<Entry(KeyNseXyz, Some(Price), Some(1000), Some(7), Some(990),
                     OhlcArray(Some(400)), Some(300))>>)

(* an entry with a price and nothing else: no ltt, ltq, cp, ohlc, volume *)
FrameDefaults == LiveFeed(<<Plain(KeyNseXyz, Some(Price), None)>>)

(* an entry without ltt and cp whose ohlc is an empty array, with its   *)
(* own volume, before an entry with price and ltt only                  *)
FrameMixed ==
    LiveFeed(<<Entry(KeyPlain, Some(Price), None, Some(7), None,
                     OhlcArray(None), Some(300)),
               Plain(KeyNseXyz, Some(Price), Some(1500))>>)

Frames == {Malformed, FrameOther, FrameNoFeeds, FrameAt(Some(0)), FrameAt(Some(1000)),
           FrameAt(Some(1500)), FrameBatch, FrameSkips, FrameThrows}

LiveFrame == \E f \in Frames, now \in Nows : Message(f, now)

InjectFrame == \E f \in Frames, now \in Nows : AddTestTick(f, now)

(* ------------------------------------------------------------------ *)
(* Instrument verification: src/utils/instrument-verification.ts       *)
(* ------------------------------------------------------------------ *)

(* VERIFIED_INSTRUMENT_MAPPINGS: kiteSymbol and upstoxSymbol of each   *)
(* entry, in the order of the table                                    *)
Mapping(kiteSymbol, upstoxSymbol) ==
    [kiteSymbol |-> kiteSymbol, upstoxSymbol |-> upstoxSymbol]

VERIFIED_INSTRUMENT_MAPPINGS ==
    <<Mapping("BHEL", "NSE_EQ|INE257A01026"),
      Mapping("RELIANCE", "BSE_EQ|INE002A01018"),
      Mapping("SENSEX25708FUT", "BSE_FO|824914"),
      Mapping("CRUDEOIL25JULFUT", "MCX_FO|447552"),
      Mapping("NIFTY25JULFUT", "NSE_FO|53216"),
      Mapping("USDINR25JULFUT", "NCD_FO|1229")>>

(* tokenMap of getInstrumentNameFromToken *)
TokenMap ==
    (256265 :> "NIFTY25JULFUT") @@ (265 :> "SENSEX25708FUT")
        @@ (128083204 :> "RELIANCE") @@ (281836549 :> "BHEL")
        @@ (408065 :> "USDINR25JULFUT") @@ (134657 :> "CRUDEOIL25JULFUT")

(* tokenMap[token] || `TOKEN_${token}` *)
GetInstrumentNameFromToken(token) ==
    IF token \in DOMAIN TokenMap THEN TokenMap[token] ELSE "TOKEN_"

(* array.find(pred), is being the positions of ts that satisfy pred:   *)
(* the first element that satisfies it, if any                         *)
Find(ts, is) ==
    IF is = {} THEN None
    ELSE Some(ts[CHOOSE i \in is : \A j \in is : i <= j])

(* tick?.last_price || null *)
PriceOrNull(tick) ==
    IF IsSome(tick) /\ Get(tick).last_price # 0 THEN Some(Get(tick).last_price)
    ELSE None

Abs(n) == IF n < 0 THEN 0 - n ELSE n

(* The body of the forEach for one mapping.  Prices are integers in     *)
(* tenths, as in the hook: difference < 0.01 is a difference of 0, and  *)
(* percentageDiff = difference / upstoxPrice * 100 is kept as the pair  *)
(* of its numerator and denominator (None: null).                       *)
Analyzed(mapping, kiteTicks, upstoxTicks) ==
    LET kiteTick == Find(kiteTicks, {i \in DOMAIN kiteTicks :
                        \/ kiteTicks[i].tradingsymbol = mapping.kiteSymbol
                        \/ GetInstrumentNameFromToken(kiteTicks[i].instrument_token)
                               = mapping.kiteSymbol})
        upstoxTick == Find(upstoxTicks, {i \in DOMAIN upstoxTicks :
                        \/ upstoxTicks[i].instrument_token = mapping.upstoxSymbol
                        \/ upstoxTicks[i].instrument_key = mapping.upstoxSymbol})
        kitePrice == PriceOrNull(kiteTick)
        upstoxPrice == PriceOrNull(upstoxTick)
        both == IsSome(kitePrice) /\ IsSome(upstoxPrice)
        difference == IF both THEN Abs(Get(kitePrice) - Get(upstoxPrice)) ELSE 0
        percentageDiff == IF both /\ Get(upstoxPrice) # 0
                          THEN Ratio(difference * 100, Get(upstoxPrice))
                          ELSE Ratio(0, 1)
        below(r, thousandths) == r.num * 1000 < thousandths * r.den
        verdict ==
            IF both
            THEN IF difference < 1 THEN <<"matched", "low">>
                 ELSE IF below(percentageDiff, 100) THEN <<"discrepancy", "low">>
                 ELSE IF below(percentageDiff, 1000) THEN <<"discrepancy", "medium">>
                 ELSE <<"discrepancy", "high">>
            ELSE IF IsSome(kitePrice) THEN <<"missing_upstox", "medium">>
            ELSE IF IsSome(upstoxPrice) THEN <<"missing_kite", "medium">>
            ELSE <<"both_missing", "low">>
    IN  [instrumentName |-> mapping.kiteSymbol,
         kitePrice      |-> kitePrice,
         upstoxPrice    |-> upstoxPrice,
         difference     |-> IF both THEN Some(difference) ELSE None,
         percentageDiff |-> IF both THEN Some(percentageDiff) ELSE None,
         status         |-> verdict[1],
         severity       |-> verdict[2]]

(* analyzePriceDiscrepancies(kiteTicks, upstoxTicks) *)
AnalyzePriceDiscrepancies(kiteTicks, upstoxTicks) ==
    [i \in DOMAIN VERIFIED_INSTRUMENT_MAPPINGS |->
        Analyzed(VERIFIED_INSTRUMENT_MAPPINGS[i], kiteTicks, upstoxTicks)]

(* Inputs: Kite ticks named by symbol or by token, Upstox ticks named   *)
(* by instrument_token or instrument_key ("": the member is absent),    *)
(* with a price of 0, equal prices and different prices.                *)
KiteTick(tradingsymbol, instrument_token, last_price) ==
    [tradingsymbol |-> tradingsymbol, instrument_token |-> instrument_token,
     last_price |-> last_price]

UpstoxTick(instrument_token, instrument_key, last_price) ==
    [instrument_token |-> instrument_token, instrument_key |-> instrument_key,
     last_price |-> last_price]

KiteTickInputs ==
    {KiteTick("BHEL", 281836549, 0), KiteTick("BHEL", 281836549, Price),
     KiteTick("", 128083204, Price + 20), KiteTick("OTHER", 1, Price)}

UpstoxTickInputs ==
    {UpstoxTick("NSE_EQ|INE257A01026", "", Price),
     UpstoxTick("NSE_EQ|INE257A01026", "", 0),
     UpstoxTick("", "BSE_EQ|INE002A01018", Price + 1)}

(* the lists of at most two of the ticks of S *)
ListsOf(S) == {<<>>} \cup {<<a>> : a \in S} \cup {<<a, b>> : a \in S, b \in S}

(* the verification panel is given two tick lists *)
InitVerify ==
    /\ InitHook
    /\ verification \in
          {[kiteTicks |-> k, upstoxTicks |-> u, discrepancies |-> None] :
               k \in ListsOf(KiteTickInputs), u \in ListsOf(UpstoxTickInputs)}

(* the useMemo of the panel: analyzePriceDiscrepancies(kiteTicks, upstoxTicks) *)
Analyze ==
    /\ ~IsSome(verification.discrepancies)
    /\ verification' =
          [verification EXCEPT !.discrepancies =
              Some(AnalyzePriceDiscrepancies(verification.kiteTicks,
                                             verification.upstoxTicks))]
    /\ last' = Did("analyze")
    /\ UNCHANGED <<progVarsButStale, staleTimeouts, strayTimers, superseded,
                   mounted, mounts, frames, failRun, pushed, opened, quiet,
                   decoded>>

(* ------------------------------------------------------------------ *)
(* Specifications                                                      *)
(* ------------------------------------------------------------------ *)

(* The engine on an open feed: the effect runs, the connection opens,  *)
(* frames arrive and are injected in any interleaving, alerts are      *)
(* cleared.                                                            *)
Next ==
    \/ Mount
    \/ TransportOpen
    \/ LiveFrame
    \/ InjectFrame
    \/ ClearAlerts

Spec == Init /\ [][Next]_vars

(* The watchdog: the connection opens, time passes, the timers fire,   *)
(* frames of each outcome arrive and are injected.                     *)
WatchFrames == {Malformed, FrameOther, FrameSkips, FrameAt(Some(1000))}

LiveWatched == \E f \in WatchFrames, now \in Nows : Message(f, now)

InjectWatched == \E f \in WatchFrames, now \in Nows : AddTestTick(f, now)

NextWatch ==
    \/ Mount
    \/ TransportOpen
    \/ ConnectTimeoutFire
    \/ FreezeFire
    \/ Advance
    \/ LiveWatched
    \/ InjectWatched

SpecWatch == Init /\ [][NextWatch]_vars

(* The decoders: frames with and without the optional fields arrive    *)
(* and are injected, at either of two local times.                      *)
DecodeFrames == {FrameFull, FrameDefaults, FrameMixed, FrameThrows}

DecodeNows == {2000, 2500}

LiveDecoded == \E f \in DecodeFrames, now \in DecodeNows : Message(f, now)

InjectDecoded == \E f \in DecodeFrames, now \in DecodeNows : AddTestTick(f, now)

NextDecode ==
    \/ Mount
    \/ TransportOpen
    \/ LiveDecoded
    \/ InjectDecoded

SpecDecode == Init /\ [][NextDecode]_vars

(* The connection supervisor: the transport opens, retries and closes,  *)
(* the timers run, the effect is cleaned up and run again.              *)
NextConn ==
    \/ Mount
    \/ MountThrows
    \/ Cleanup
    \/ CleanupAgain
    \/ TransportOpen
    \/ TransportRetry
    \/ TransportClosed
    \/ ConnectTimeoutFire
    \/ StaleTimeoutFire
    \/ FreezeFire
    \/ ReconnectFire
    \/ ReconnectThrows
    \/ Advance

SpecConn == Init /\ [][NextConn]_vars

(* The supervisor while the effect stays mounted and the EventSource    *)
(* constructor succeeds, with the scheduling the event loop guarantees: *)
(* the effect runs, time passes, and a timer that is due fires.         *)
(* Transport events are under no obligation.                            *)
NextSupervise ==
    \/ Mount
    \/ TransportOpen
    \/ TransportRetry
    \/ TransportClosed
    \/ ConnectTimeoutFire
    \/ FreezeFire
    \/ ReconnectFire
    \/ Advance

(* The frozen flag: once the watchdog has fired, frames of each kind   *)
(* arrive, the transport fails and reconnects, alerts are cleared, with *)
(* time passing from one timer to the next.                             *)
FrozenFrames == {Malformed, FrameOther, FrameAllSkipped, FrameAt(Some(1000))}

FrozenFrame == isFrozen /\ \E f \in FrozenFrames, now \in Nows : Message(f, now)

FrozenRetry == isFrozen /\ TransportRetry

FrozenClosed == isFrozen /\ TransportClosed

FrozenClear == isFrozen /\ ClearAlerts

NextFrozen ==
    \/ Mount
    \/ TransportOpen
    \/ ConnectTimeoutFire
    \/ FreezeFire
    \/ ReconnectFire
    \/ Sleep
    \/ FrozenFrame
    \/ FrozenRetry
    \/ FrozenClosed
    \/ FrozenClear

SpecFrozen == Init /\ [][NextFrozen]_vars

(* The supervisor with tick data in place: a first tick is received or *)
(* injected into the empty buffer at any moment, the transport opens,   *)
(* fails and reconnects, the effect is cleaned up and run again.        *)
FirstTick ==
    /\ ticks = <<>>
    /\ \E now \in Nows : \/ Message(FrameAt(Some(1000)), now)
                          \/ AddTestTick(FrameAt(Some(1000)), now)

NextEngine ==
    \/ Mount
    \/ Cleanup
    \/ TransportOpen
    \/ TransportRetry
    \/ TransportClosed
    \/ ConnectTimeoutFire
    \/ StaleTimeoutFire
    \/ FreezeFire
    \/ ReconnectFire
    \/ Sleep
    \/ FirstTick

SpecEngine == Init /\ [][NextEngine]_vars

(* The verification panel: given any two tick lists, it analyzes them. *)
NextVerify == Analyze

SpecVerify == InitVerify /\ [][NextVerify]_vars

FairSpec ==
    /\ Init
    /\ [][NextSupervise]_vars
    /\ WF_vars(Mount)
    /\ WF_vars(Advance)
    /\ WF_vars(ConnectTimeoutFire)
    /\ WF_vars(FreezeFire)
    /\ WF_vars(ReconnectFire)

(* ------------------------------------------------------------------ *)
(* Properties                                                          *)
(* ------------------------------------------------------------------ *)

Seconds(n) == n * 1000

(* The delays of the specification's table, by the rank of the failure. *)
TableDelay(n) == Seconds(<<5, 10, 20, 30, 30>>[Min(n, 5)])

(* C1: while every attempt since the engine was created ended with the  *)
(* transport closing, the delay scheduled at the n-th failure is the    *)
(* n-th of 5, 10, 20, 30, 30, ... seconds, and no pending reconnect     *)
(* timer is ever more than 30 seconds away.                             *)
C1_BackoffSequence ==
    /\ (last.op = "closed" /\ IsSome(failRun))
          => reconnectTimeoutRef = Some(TableDelay(Get(failRun)))
    /\ IsSome(reconnectTimeoutRef) => Get(reconnectTimeoutRef) <= Seconds(30)

C1_Witness ==
    /\ last.op = "closed"
    /\ failRun = Some(5)
    /\ reconnectTimeoutRef = Some(Seconds(30))

(* C2: the delay scheduled at a failure of a connection that had opened *)
(* is 5 seconds, and every delay scheduled is between 5 and 30 seconds. *)
C2_ResetToBase ==
    last.op = "closed" =>
        /\ IsSome(reconnectTimeoutRef)
        /\ opened => reconnectTimeoutRef = Some(Seconds(5))
        /\ Get(reconnectTimeoutRef) >= Seconds(5)
        /\ Get(reconnectTimeoutRef) <= Seconds(30)

(* C3: while the effect is mounted, a status of error leads to a status *)
(* of connecting.                                                       *)
C3_EventuallyReconnects ==
    (mounted /\ connectionStatus = "error") ~> (connectionStatus = "connecting")

(* C4: the watchdog fires when, and only when, FREEZE_TIMEOUT has       *)
(* passed since scheduleFreeze was last called: a pending watchdog is   *)
(* due exactly then, and the step in which it fires sets the frozen     *)
(* flag, adds 1 to the incident count, pushes one high freeze alert     *)
(* and leaves no watchdog pending.                                      *)
C4_StallDetection ==
    [][ /\ IsSome(quiet') =>
             /\ IsSome(freezeTimer')
             /\ Get(freezeTimer') + Get(quiet') = Seconds(30)
        /\ last'.op = "freeze" =>
             /\ quiet = Some(Seconds(30))
             /\ isFrozen'
             /\ freezingIncidents' = freezingIncidents + 1
             /\ alerts' = <<Alert("freeze", "no data", "high")>>
                             \o SubSeq(alerts, 1, Min(Len(alerts), MAX_ALERTS - 1))
             /\ freezeTimer' = None
             /\ quiet' = None
      ]_vars

C4_Witness ==
    /\ last.op = "freeze"
    /\ isFrozen
    /\ freezingIncidents = 1
    /\ alerts[1].type = "freeze"

(* C5: a frame, received or injected, that puts at least one tick into *)
(* the buffer while frozen is true leaves frozen false.                *)
C5_FreezeCleared ==
    [][ (/\ isFrozen
         /\ last'.op \in {"message", "inject"}
         /\ decoded'.count > decoded.count) => ~isFrozen' ]_vars

(* The delay of a tick with timestamp ts whose key last had a tick with *)
(* timestamp prev (None: the key had no tick).                          *)
ExpectedDelay(prev, ts) == IF IsSome(prev) THEN ts - Get(prev) ELSE 0

(* the ticks a step has put into the buffer *)
IsNew(t) == t.seq > decoded.count

(* C6: every tick put into the buffer by a frame, received or injected, *)
(* has delay 0 when it is the first tick of its key, and otherwise its  *)
(* timestamp minus the timestamp of the previous tick of its key.       *)
C6_PerKeyDelay ==
    [][ \A i \in DOMAIN ticks' :
            IsNew(ticks'[i]) =>
                ticks'[i].delay =
                    ExpectedDelay(decoded.time[ticks'[i].instrument_token],
                                  ticks'[i].timestamp) ]_vars

(* C7: each buffer holds min(k, N) elements, k the pushes since it was  *)
(* last empty and N its capacity; the tick buffer holds                 *)
(* min(totalTicks, MAX_TICKS) ticks.                                    *)
C7_BoundedBuffers ==
    /\ Len(ticks) = Min(totalTicks, MAX_TICKS)
    /\ Len(ticks) = Min(decoded.count, MAX_TICKS)
    /\ Len(alerts) = Min(pushed.alerts, MAX_ALERTS)
    /\ Len(rawMessages) = Min(pushed.raw, MAX_RAW_MESSAGES)
    /\ Len(debugInfo) = Min(pushed.debug, MAX_DEBUG_INFO)

C7_Witness ==
    /\ last.frame = FrameBatch
    /\ Len(Get(FrameBatch.feeds)) > MAX_TICKS
    /\ decoded.count > Len(Get(FrameBatch.feeds))
    /\ Len(ticks) = MAX_TICKS
    /\ pushed.debug > MAX_DEBUG_INFO

(* C8: of two ticks in the buffer, the one nearer the front was decoded *)
(* later.                                                               *)
C8_MostRecentFirst ==
    \A i, j \in DOMAIN ticks : i < j => ticks[i].seq > ticks[j].seq

(* C9: injecting a frame with invalid syntax leaves the tick buffer,    *)
(* the tick count and the delay tracker as they were and pushes exactly *)
(* one alert, of type data.                                             *)
C9_InvalidInjection ==
    [][ (last'.op = "inject" /\ last'.frame = Malformed) =>
            /\ UNCHANGED <<ticks, totalTicks, lastTickForInstrument>>
            /\ Len(alerts') = Min(Len(alerts) + 1, MAX_ALERTS)
            /\ alerts'[1].type = "data"
            /\ Tail(alerts') = SubSeq(alerts, 1, Len(alerts') - 1) ]_vars

(* C10: injecting a frame with one priced entry for key K with          *)
(* timestamp T puts exactly one tick at the front of the buffer, with   *)
(* the price and the timestamp of the frame, adds 1 to the tick count,  *)
(* and gives the tick delay 0 when K had no tick and otherwise T minus  *)
(* the timestamp of the last tick of K, received or injected.           *)
C10_SingleInjection ==
    [][ \A T \in {0, 1000, 1500} :
          (last'.op = "inject" /\ last'.frame = FrameAt(Some(T))) =>
            /\ Len(ticks') = Min(Len(ticks) + 1, MAX_TICKS)
            /\ Tail(ticks') = SubSeq(ticks, 1, Len(ticks') - 1)
            /\ ticks'[1].instrument_token = KeyNseXyz
            /\ ticks'[1].last_price = Price
            /\ ticks'[1].timestamp = T
            /\ ticks'[1].delay = ExpectedDelay(decoded.time[KeyNseXyz], T)
            /\ totalTicks' = totalTicks + 1 ]_vars

(* the effect was cleaned up and has not run again *)
Stopped == ~mounted /\ mounts > 0

(* C11: once the effect is cleaned up, no connect timeout, no reconnect *)
(* timer and no watchdog is pending, and there is no connection.        *)
C11_TeardownCancelsTimers ==
    Stopped =>
        /\ esRef = "null"
        /\ freezeTimer = None
        /\ reconnectTimeoutRef = None
        /\ connectionTimeout = None
        /\ staleTimeouts = {}

(* C12: while the effect is cleaned up, no step (time passing, a timer  *)
(* firing, the cleanup function called again) changes the status, the   *)
(* alerts, the frozen flag, the incident count, the ticks, the tick     *)
(* count or the attempt counter, reopens a connection or arms the       *)
(* watchdog or the reconnect timer.                                     *)
C12_QuiescentTeardown ==
    [][ (Stopped /\ ~mounted') =>
            UNCHANGED <<connectionStatus, alerts, isFrozen, freezingIncidents,
                        ticks, totalTicks, lastTickTime, connectionAttempts,
                        lastTickForInstrument, rawMessages, esRef, freezeTimer,
                        reconnectTimeoutRef>> ]_vars

C12_Witness ==
    /\ Stopped
    /\ last.op = "stale timeout"
    /\ Len(debugInfo) >= 2
    /\ debugInfo[1] = "cleaning up"
    /\ debugInfo[2] = "cleaning up"

(* C13: addTestTick is enabled in every state, whatever the status,    *)
(* and leaves the watchdog as it is, armed with the same time left or   *)
(* not armed; the watchdog fires when FREEZE_TIMEOUT has passed since   *)
(* it was last armed by the connection opening or a received frame,     *)
(* injections in between or not.                                        *)
C13_InjectionLeavesWatchdog ==
    /\ [](frames < MaxFrames => ENABLED InjectWatched)
    /\ [][ /\ last'.op = "inject" => (freezeTimer' = freezeTimer /\ quiet' = quiet)
           /\ last'.op = "freeze" => quiet = Some(FREEZE_TIMEOUT) ]_vars

C13_Witness ==
    /\ last.op = "inject"
    /\ connectionStatus = "connected"
    /\ IsSome(freezeTimer)
    /\ Get(freezeTimer) < FREEZE_TIMEOUT
    /\ Get(freezeTimer) + Get(quiet) = FREEZE_TIMEOUT
    /\ Len(ticks) > 0
    /\ ticks[1].exchange = TEST

(* C14: the tick count never decreases, and equals the number of ticks *)
(* that received and injected frames have put out so far, evicted or    *)
(* not.                                                                 *)
C14_CumulativeCount ==
    /\ [](totalTicks = decoded.count)
    /\ [][totalTicks' >= totalTicks]_vars

C14_Witness ==
    /\ totalTicks > MAX_TICKS
    /\ Len(ticks) = MAX_TICKS
    /\ ticks[1].exchange = TEST
    /\ \E i \in DOMAIN ticks : ticks[i].exchange # TEST

(* the state of the hook other than the alerts *)
butAlerts == <<ticks, connectionStatus, isFrozen, lastTickTime, totalTicks,
               freezingIncidents, rawMessages, debugInfo, esRef, freezeTimer,
               lastTickForInstrument, reconnectTimeoutRef, connectionAttempts,
               connectionTimeout, staleTimeouts, strayTimers>>

(* C15: clearAlerts leaves no alert and changes nothing else; every    *)
(* other step leaves the alerts it found in place and in order, behind  *)
(* the alerts it adds, up to the capacity.                              *)
C15_ClearAlertsOnly ==
    [][ IF last'.op = "clear"
        THEN alerts' = <<>> /\ UNCHANGED butAlerts
        ELSE \E n \in 0..MAX_ALERTS :
                /\ Len(alerts') = Min(Len(alerts) + n, MAX_ALERTS)
                /\ \A i \in (n + 1)..Len(alerts') : alerts'[i] = alerts[i - n] ]_vars

C15_Witness ==
    /\ last.op = "clear"
    /\ alerts = <<>>
    /\ debugInfo # <<>>
    /\ debugInfo[1] = "alert"
    /\ Len(ticks) > 0

(* the sum of the delays of the ticks of ts at the positions S *)
RECURSIVE SumDelays(_, _)
SumDelays(ts, S) ==
    IF S = {} THEN 0
    ELSE LET i == CHOOSE i \in S : TRUE
         IN  ts[i].delay + SumDelays(ts, S \ {i})

(* C16: averageDelay is 0 when the tick buffer is empty and otherwise   *)
(* the sum of the delays of the ticks in the buffer divided by their    *)
(* number.                                                              *)
C16_AverageDelay ==
    /\ averageDelay.den # 0
    /\ IF Len(ticks) = 0
       THEN averageDelay.num = 0
       ELSE averageDelay.num * Len(ticks)
               = SumDelays(ticks, DOMAIN ticks) * averageDelay.den

C16_Witness ==
    /\ Len(ticks) = MAX_TICKS
    /\ totalTicks > MAX_TICKS
    /\ averageDelay.num # 0

(* the alerts after one more alert a *)
WithAlert(a) == <<a>> \o SubSeq(alerts, 1, Min(Len(alerts), MAX_ALERTS - 1))

(* C17: when the connect timeout fires while the EventSource is still   *)
(* connecting, the EventSource is closed, the status becomes error, one *)
(* high connection alert is pushed and a reconnect timer is pending.    *)
C17_ConnectTimeout ==
    [][ (last'.op = "connect timeout" /\ esRef = "CONNECTING") =>
            /\ esRef' = "CLOSED"
            /\ connectionStatus' = "error"
            /\ alerts' = WithAlert(Alert("connection", "connection timeout", "high"))
            /\ IsSome(reconnectTimeoutRef') ]_vars

(* C18: an error event of the EventSource in status connected or        *)
(* connecting, the transport closed or retrying by itself, leaves the   *)
(* status error, one more connection alert and a reconnect timer        *)
(* pending.                                                             *)
C18_TransportError ==
    [][ (/\ last'.op \in {"retry", "closed"}
         /\ connectionStatus \in {"connected", "connecting"}) =>
            /\ connectionStatus' = "error"
            /\ \E sev \in {"low", "medium", "high"}, msg \in {"connection lost"} :
                   alerts' = WithAlert(Alert("connection", msg, sev))
            /\ IsSome(reconnectTimeoutRef') ]_vars

(* C19: the open event leaves the status connected, no connect timeout  *)
(* pending, the attempt counter at 0, one more low connection alert and *)
(* the watchdog armed with FREEZE_TIMEOUT; once an attempt has opened,  *)
(* its connect timeout never fires.                                     *)
C19_TransportOpen ==
    [][ /\ last'.op = "open" =>
             /\ connectionStatus' = "connected"
             /\ connectionTimeout' = None
             /\ connectionAttempts' = 0
             /\ alerts' = WithAlert(Alert("connection", "connected", "low"))
             /\ freezeTimer' = Some(FREEZE_TIMEOUT)
        /\ opened => last'.op # "connect timeout" ]_vars

C19_Witness ==
    /\ last.op = "open"
    /\ connectionAttempts = 0
    /\ freezeTimer = Some(FREEZE_TIMEOUT)
    /\ Len(alerts) >= 2
    /\ alerts[1].severity = "low"
    /\ alerts[2].message = "connection lost"

(* the status changes of the specification's state machine *)
Transitions ==
    {<<"disconnected", "connecting">>, <<"error", "connecting">>,
     <<"connecting", "connected">>, <<"connecting", "error">>,
     <<"connected", "error">>}

(* the step ran connectToUpstox *)
Starts == last'.op \in {"mount", "reconnect"}

(* C20: the status is disconnected until the effect first runs; every   *)
(* change of the status is one of Transitions (a connectToUpstox whose  *)
(* EventSource constructor throws passes through connecting to error    *)
(* within the step); connectToUpstox only runs in status disconnected   *)
(* or error, and the reconnect timer only fires in status error.        *)
C20_StatusMachine ==
    /\ [](mounts = 0 => connectionStatus = "disconnected")
    /\ [][ /\ connectionStatus' # connectionStatus =>
                \/ <<connectionStatus, connectionStatus'>> \in Transitions
                \/ Starts /\ connectionStatus = "disconnected"
                          /\ connectionStatus' = "error"
           /\ Starts => connectionStatus \in {"disconnected", "error"}
           /\ last'.op = "reconnect" => connectionStatus = "error" ]_vars

(* the number of reconnect timers pending *)
ReconnectsPending ==
    Len(reconnectTimeoutRef) + Cardinality({t \in strayTimers : t[1] = "reconnect"})

(* C21: at most one reconnect timer is pending in every state; the      *)
(* failure of an attempt leaves exactly one pending, and when it fires  *)
(* (which it does in status error only) none is left to start another   *)
(* attempt.                                                             *)
C21_SingleReconnectTimer ==
    /\ [](ReconnectsPending <= 1)
    /\ [][ /\ last'.op = "closed" => ReconnectsPending' = 1
           /\ last'.op = "reconnect" =>
                 (connectionStatus = "error" /\ ReconnectsPending' = 0) ]_vars

C21_Witness ==
    /\ last.op = "closed"
    /\ connectionAttempts >= 2
    /\ mounts = MaxMounts
    /\ ReconnectsPending = 1

(* the number of watchdog timers pending *)
WatchdogsPending ==
    Len(freezeTimer) + Cardinality({t \in strayTimers : t[1] = "freeze"})

(* C22: a received frame of any kind (it yields ticks, all its entries  *)
(* are skipped, it is not a live feed, or it does not parse) leaves the *)
(* watchdog armed with the full FREEZE_TIMEOUT; the watchdog never      *)
(* fires less than FREEZE_TIMEOUT after the last received frame; at     *)
(* most one watchdog timer is pending in every state.                   *)
C22_FrameRearmsWatchdog ==
    /\ [](WatchdogsPending <= 1)
    /\ [][ /\ last'.op = "message" =>
                 (freezeTimer' = Some(FREEZE_TIMEOUT) /\ WatchdogsPending' = 1)
           /\ (last'.op = "freeze" /\ IsSome(quiet)) => Get(quiet) >= FREEZE_TIMEOUT
           /\ last'.op = "freeze" => IsSome(quiet) ]_vars

C22_Witness ==
    /\ last.op = "message"
    /\ last.frame = Malformed
    /\ isFrozen
    /\ freezingIncidents = 1
    /\ freezeTimer = Some(FREEZE_TIMEOUT)
    /\ Len(rawMessages) >= 2

(* C23: the frozen flag goes from true to false only in a step that    *)
(* handles a frame and puts out at least one tick; a frame that does    *)
(* not parse, is not a live feed or has all its entries skipped, the    *)
(* open and error events, the reconnect timer and clearAlerts leave the *)
(* flag as it is.                                                       *)
C23_FrozenSticky ==
    [][ /\ (isFrozen /\ ~isFrozen') =>
              /\ last'.op \in {"message", "inject"}
              /\ decoded'.count > decoded.count
        /\ (\/ last'.op \in {"open", "retry", "closed", "reconnect", "clear"}
            \/ last'.frame \in {Malformed, FrameOther, FrameAllSkipped}) =>
              isFrozen' = isFrozen ]_vars

C23_Witness ==
    /\ isFrozen
    /\ last.op = "message"
    /\ last.frame = FrameAllSkipped
    /\ alerts = <<>>
    /\ freezingIncidents = 1

(* C24: a received frame that does not parse pushes exactly one medium  *)
(* data alert and leaves the status, the EventSource, the tick buffer,  *)
(* the tick count, the delay tracker and the frozen flag as they were;  *)
(* the next frame can be received after it.                             *)
C24_MalformedFrame ==
    /\ []((/\ last.op = "message" /\ last.frame = Malformed
           /\ frames < MaxFrames /\ freezingIncidents < MaxIncidents)
              => ENABLED LiveWatched)
    /\ [][ (last'.op = "message" /\ last'.frame = Malformed) =>
              /\ alerts' = WithAlert(Alert("data", "parse error", "medium"))
              /\ UNCHANGED <<connectionStatus, esRef, ticks, totalTicks, isFrozen,
                             lastTickForInstrument, lastTickTime,
                             connectionAttempts, reconnectTimeoutRef>> ]_vars

C24_Witness ==
    /\ last.op = "message"
    /\ Len(rawMessages) >= 2
    /\ rawMessages[2] = RawText(Malformed)
    /\ rawMessages[1] = RawText(FrameAt(Some(1000)))
    /\ Len(ticks) > 0
    /\ \E i \in DOMAIN alerts : alerts[i].type = "data"

(* the entry carries a last-traded price (a price of 0 counts as none) *)
Priced(e) == e.ltpc /\ IsSome(e.ltp) /\ Get(e.ltp) # 0

(* the positions of the priced entries of the feeds fs, and of those    *)
(* among them whose other fields have the expected shape                *)
PricedIn(fs) == {i \in DOMAIN fs : Priced(fs[i])}

SoundIn(fs) == {i \in PricedIn(fs) : fs[i].ohlc.shape # "object"}

(* C25: a live feed, received or injected, puts out one tick for every  *)
(* priced entry of the expected shape, whatever its other entries are,  *)
(* and at most one tick per priced entry.                               *)
C25_PartialFailure ==
    [][ (last'.op \in {"message", "inject"} /\ Recognized(last'.frame)) =>
            LET fs == Get(last'.frame.feeds)
            IN  /\ totalTicks' - totalTicks >= Cardinality(SoundIn(fs))
                /\ totalTicks' - totalTicks <= Cardinality(PricedIn(fs)) ]_vars

(* C26: in every state the delay tracker holds, for every key, the      *)
(* timestamp of the last tick that a frame has put out for that key     *)
(* (nothing for a key without a tick): a frame changes the entry of a   *)
(* key exactly when it puts out a tick for the key, and a frame that    *)
(* fails changes none.                                                  *)
C26_TrackerFollowsTicks ==
    \A k \in Keys : lastTickForInstrument[k] = decoded.time[k]

(* C27: no tick in the buffer has a negative delay.                     *)
C27_NonNegativeDelay ==
    \A i \in DOMAIN ticks : ticks[i].delay >= 0

(* C28: a frame that parses but is not a live feed with feeds, received *)
(* or injected, leaves the ticks, the tick count, the delay tracker,    *)
(* the alerts, the frozen flag and the status as they were; a received  *)
(* one is pushed on the raw log and noted in the debug log.             *)
C28_UnrecognizedFrame ==
    [][ (/\ last'.op \in {"message", "inject"}
         /\ last'.frame \in {FrameOther, FrameNoFeeds}) =>
            /\ UNCHANGED <<ticks, totalTicks, lastTickForInstrument, alerts,
                           isFrozen, connectionStatus>>
            /\ last'.op = "message" =>
                  /\ rawMessages' = <<RawText(last'.frame)>>
                         \o SubSeq(rawMessages, 1,
                                   Min(Len(rawMessages), MAX_RAW_MESSAGES - 1))
                  /\ debugInfo'[1] = "non-live_feed" ]_vars

C28_Witness ==
    /\ last.op = "message"
    /\ last.frame = FrameNoFeeds
    /\ rawMessages[1] = RawText(FrameNoFeeds)
    /\ Len(ticks) > 0
    /\ Len(alerts) > 0

(* C29: the watchdog fires in status connected only.                    *)
C29_FreezeWhileConnected ==
    [][ last'.op = "freeze" => connectionStatus = "connected" ]_vars

(* C30: the effect running, the open and error events, the connect      *)
(* timeout, the reconnect timer and the cleanup leave the tick buffer,  *)
(* the tick count, the delay tracker, the time of the last tick, the    *)
(* raw log, the frozen flag and the incident count as they were.        *)
C30_SupervisorLeavesTicks ==
    [][ last'.op \in {"mount", "open", "retry", "closed", "connect timeout",
                      "stale timeout", "reconnect", "cleanup"} =>
            UNCHANGED <<ticks, totalTicks, lastTickForInstrument, lastTickTime,
                        rawMessages, isFrozen, freezingIncidents>> ]_vars

C30_Witness ==
    /\ last.op = "cleanup"
    /\ connectionStatus = "error"
    /\ Len(ticks) > 0
    /\ totalTicks > 0
    /\ lastTickForInstrument[KeyNseXyz] = Some(1000)

(* the fields of a tick that come from the entry and the delay tracker *)
Decoded(t) ==
    [instrument_token |-> t.instrument_token, last_price |-> t.last_price,
     last_quantity |-> t.last_quantity, average_price |-> t.average_price,
     volume |-> t.volume, timestamp |-> t.timestamp, delay |-> t.delay]

(* C31: a frame that puts out ticks, received or injected, puts out     *)
(* what either decoder makes of it from the same delay tracker at the   *)
(* same local time: the two loops give ticks for the same keys in the   *)
(* same order with the same price, quantity, reference price, volume,   *)
(* timestamp and delay and leave the same tracker, and the step adds    *)
(* these ticks, raises the tick count by their number and leaves that   *)
(* tracker.                                                             *)
C31_SameDecoder ==
    [][ (last'.op \in {"message", "inject"} /\ decoded'.count > decoded.count) =>
            LET f    == last'.frame
                now  == ticks'[1].receivedAt
                live == LiveResult(f, now)
                test == TestResult(f, now)
            IN  /\ Len(live.ticks) = Len(test.ticks)
                /\ \A i \in DOMAIN live.ticks :
                       Decoded(live.ticks[i]) = Decoded(test.ticks[i])
                /\ live.tracker = test.tracker
                /\ lastTickForInstrument' = test.tracker
                /\ totalTicks' - totalTicks = Len(live.ticks)
                /\ \A i \in 1..Min(Len(live.ticks), MAX_TICKS) :
                       /\ Decoded(ticks'[i]) = Decoded(live.ticks[i])
                       /\ Decoded(ticks'[i]) = Decoded(test.ticks[i]) ]_vars

C31_Witness ==
    /\ last.op = "inject"
    /\ last.frame = FrameFull
    /\ Len(ticks) >= 2
    /\ ticks[1].exchange = TEST
    /\ ticks[2].exchange # TEST
    /\ ticks[1].delay # 0

(* the key has no separator *)
Unseparated(key) == \A i \in DOMAIN key : key[i] # "|"

(* the characters of the key before and after its first separator *)
Before(key) ==
    SubSeq(key, 1, (CHOOSE i \in DOMAIN key : key[i] = "|" /\ Unseparated(SubSeq(key, 1, i - 1))) - 1)

After(key) ==
    SubSeq(key, Len(Before(key)) + 2, Len(key))

(* C32: a tick put out by a received frame whose key has no separator   *)
(* has the whole key as its symbol and UNK as its exchange; a tick of   *)
(* a key "exchange|symbol" has that exchange and that symbol.           *)
C32_InstrumentIdentifier ==
    \A i \in DOMAIN ticks :
        LET t == ticks[i]
            k == t.instrument_token
        IN  t.exchange # TEST =>
                IF Unseparated(k)
                THEN t.tradingsymbol = k /\ t.exchange = UNK
                ELSE (Before(k) # <<>> /\ After(k) # <<>>) =>
                        (t.exchange = Before(k) /\ t.tradingsymbol = After(k))

(* the entry of the frame f for the key k *)
EntryOf(f, k) ==
    LET fs == Get(f.feeds)
    IN  fs[CHOOSE i \in DOMAIN fs : fs[i].key = k]

(* the entry has no volume of its own and no ohlc element with one *)
NoVolume(e) == ~IsSome(e.volume) /\ ~IsSome(e.ohlc.last)

(* C33: a tick put out by a frame, received or injected, has quantity 0 *)
(* when its entry has no ltq, volume 0 when its entry has no volume,    *)
(* the last price as its reference price when its entry has no cp, and  *)
(* the receive time as its timestamp when its entry has no ltt; a field *)
(* that the entry has is taken from the entry.                          *)
C33_Defaults ==
    [][ last'.op \in {"message", "inject"} =>
          \A i \in DOMAIN ticks' :
              IsNew(ticks'[i]) =>
                  LET t == ticks'[i]
                      e == EntryOf(last'.frame, t.instrument_token)
                  IN  /\ t.last_price = Get(e.ltp)
                      /\ t.last_quantity = (IF IsSome(e.ltq) THEN Get(e.ltq) ELSE 0)
                      /\ NoVolume(e) => t.volume = 0
                      /\ IsSome(e.ohlc.last) => t.volume = Get(e.ohlc.last)
                      /\ t.average_price = (IF IsSome(e.cp) THEN Get(e.cp) ELSE t.last_price)
                      /\ t.receivedAt \in DecodeNows
                      /\ t.receivedAt = Get(lastTickTime')
                      /\ t.timestamp = (IF IsSome(e.ltt) THEN Get(e.ltt) ELSE t.receivedAt) ]_vars

C33_Witness ==
    /\ last.frame = FrameDefaults
    /\ Len(ticks) >= 2
    /\ ticks[1].timestamp = 2500
    /\ ticks[1].receivedAt = 2500
    /\ ticks[1].last_quantity = 0
    /\ ticks[1].volume = 0
    /\ ticks[1].average_price = Price
    /\ ticks[2].receivedAt = 2000
    /\ ticks[2].volume = 400
    /\ ticks[2].average_price = 990

(* C34: while the effect is active, the status is connected and the     *)
(* frozen flag is false, the watchdog is pending and due FREEZE_TIMEOUT *)
(* after the connection opened or the last frame was received: a        *)
(* connection that stays connected without frames for FREEZE_TIMEOUT    *)
(* has the watchdog fire.                                               *)
C34_WatchedWhileConnected ==
    (~Stopped /\ connectionStatus = "connected" /\ ~isFrozen) =>
        /\ IsSome(freezeTimer)
        /\ IsSome(quiet)
        /\ Get(freezeTimer) + Get(quiet) = FREEZE_TIMEOUT

C34_Witness ==
    /\ mounted
    /\ connectionStatus = "connected"
    /\ ~isFrozen
    /\ freezingIncidents = 1
    /\ Len(ticks) > 0
    /\ freezeTimer = Some(0)
    /\ quiet = Some(FREEZE_TIMEOUT)

(* C35: the incident count increases only in a step in which the frozen *)
(* flag goes from false to true.                                        *)
C35_DistinctFreezes ==
    [][ freezingIncidents' > freezingIncidents => (~isFrozen /\ isFrozen') ]_vars

(* C36: while the effect is active and the status is connecting, the    *)
(* connect timeout of the current attempt is pending.                   *)
C36_ConnectingGuarded ==
    (~Stopped /\ connectionStatus = "connecting") => IsSome(connectionTimeout)

(* the number of EventSources that are not closed *)
Connections ==
    Cardinality({c \in superseded : c # "CLOSED"})
        + (IF esRef \in {"CONNECTING", "OPEN"} THEN 1 ELSE 0)

(* the state of the hook that the callbacks of an EventSource write *)
hookState == <<connectionStatus, connectionAttempts, freezeTimer,
               reconnectTimeoutRef, ticks, totalTicks, lastTickTime,
               lastTickForInstrument, isFrozen, freezingIncidents, alerts,
               rawMessages, debugInfo, esRef>>

(* C37: at most one EventSource is not closed in every state, and every *)
(* EventSource that esRef no longer refers to is closed; a step that    *)
(* starts an attempt leaves the previous EventSource closed; the open,  *)
(* error and message handlers only run for the EventSource of esRef     *)
(* while it is not closed, and the connect timeout of a closed          *)
(* EventSource changes nothing when it fires.                           *)
C37_SingleConnection ==
    /\ [](Connections <= 1 /\ superseded \subseteq {"CLOSED"})
    /\ [][ /\ (Starts /\ esRef # "null") =>
                 (esRef' = "CLOSED" \/ "CLOSED" \in superseded')
           /\ last'.op \in {"open", "retry", "closed"} => esRef \in {"CONNECTING", "OPEN"}
           /\ last'.op = "message" => esRef = "OPEN"
           /\ last'.op = "stale timeout" => UNCHANGED hookState
           /\ (last'.op = "connect timeout" /\ esRef # "CONNECTING") =>
                 UNCHANGED hookState ]_vars

C37_Witness ==
    /\ last.op = "stale timeout"
    /\ superseded = {"CLOSED"}
    /\ esRef = "OPEN"
    /\ mounts = MaxMounts
    /\ Len(ticks) > 0
    /\ staleTimeouts = {}

(* C38: of two ticks of the same key in the buffer, the one nearer the  *)
(* front was decoded later; the tick the dashboard takes as the latest  *)
(* of a key is the one decoded last among the ticks of the key in the   *)
(* buffer.                                                              *)
C38_PerKeyRecency ==
    \A k \in Keys :
        /\ \A i, j \in DOMAIN ticks :
               (/\ i < j
                /\ ticks[i].instrument_token = k
                /\ ticks[j].instrument_token = k) => ticks[i].seq > ticks[j].seq
        /\ IsSome(UpstoxData(ticks, k)) =>
               \A i \in DOMAIN ticks :
                   ticks[i].instrument_token = k =>
                       ticks[i].seq <= Get(UpstoxData(ticks, k)).seq
        /\ (\E i \in DOMAIN ticks : ticks[i].instrument_token = k) =>
               IsSome(UpstoxData(ticks, k))

C38_Witness ==
    /\ decoded.count > MAX_TICKS
    /\ Len(ticks) = MAX_TICKS
    /\ ticks[1].instrument_token = ticks[2].instrument_token
    /\ ticks[1].exchange # ticks[2].exchange
    /\ ticks[1].timestamp < ticks[2].timestamp
    /\ Get(UpstoxData(ticks, KeyNseXyz)).timestamp = ticks[1].timestamp

(* the list has a tick for the mapping, whatever its price *)
KiteHas(mapping, kiteTicks) ==
    \E i \in DOMAIN kiteTicks :
        \/ kiteTicks[i].tradingsymbol = mapping.kiteSymbol
        \/ GetInstrumentNameFromToken(kiteTicks[i].instrument_token) = mapping.kiteSymbol

UpstoxHas(mapping, upstoxTicks) ==
    \E i \in DOMAIN upstoxTicks :
        \/ upstoxTicks[i].instrument_token = mapping.upstoxSymbol
        \/ upstoxTicks[i].instrument_key = mapping.upstoxSymbol

(* C39: analyzePriceDiscrepancies leaves the two lists as they are and  *)
(* returns one result per mapping, in the order of the mappings; the    *)
(* status of a result is both_missing exactly when neither list has a   *)
(* tick for the instrument, missing_kite exactly when only the Upstox   *)
(* list has one, missing_upstox exactly when only the Kite list has     *)
(* one, and matched or discrepancy exactly when both have one, a price  *)
(* of 0 counting as a price; missing_kite and missing_upstox have       *)
(* severity medium and both_missing has severity low.                   *)
C39_AnalysisByAvailability ==
    /\ [][ /\ verification'.kiteTicks = verification.kiteTicks
           /\ verification'.upstoxTicks = verification.upstoxTicks ]_vars
    /\ [](IsSome(verification.discrepancies) =>
            LET ds == Get(verification.discrepancies)
            IN  /\ DOMAIN ds = DOMAIN VERIFIED_INSTRUMENT_MAPPINGS
                /\ \A i \in DOMAIN ds :
                      LET m == VERIFIED_INSTRUMENT_MAPPINGS[i]
                          k == KiteHas(m, verification.kiteTicks)
                          u == UpstoxHas(m, verification.upstoxTicks)
                      IN  /\ ds[i].instrumentName = m.kiteSymbol
                          /\ ds[i].status = "both_missing" <=> (~k /\ ~u)
                          /\ ds[i].status = "missing_kite" <=> (~k /\ u)
                          /\ ds[i].status = "missing_upstox" <=> (k /\ ~u)
                          /\ ds[i].status \in {"matched", "discrepancy"} <=> (k /\ u)
                          /\ ds[i].status \in {"missing_kite", "missing_upstox"}
                                => ds[i].severity = "medium"
                          /\ ds[i].status = "both_missing" => ds[i].severity = "low")

====
